---- MODULE Spec2Model ----
(***************************************************************************)
(* Model of antero/categorical.py (OneHotEncoder, NanHotEncoder,           *)
(* CatHotEncoder) and antero/som/measures.py (umatrix, topographic_error). *)
(*                                                                         *)
(* Conventions.  Label codes are 0-based as in the source, TLA+ sequences  *)
(* are 1-based: categories[l] of the source is cats[l + 1].  A 1-D array   *)
(* of samples is a sequence; a label array is [shape, v] (v the flattened  *)
(* data); a one-hot matrix is [shape, rows]; a pandas categorical Series   *)
(* is [cats, codes].  A call's outcome is [err, val]: err = "none" for a   *)
(* normal return, otherwise the exception raised.                          *)
(***************************************************************************)
EXTENDS Integers, Sequences, FiniteSets

VARIABLES variant, _categories, op, arg, res, chain,
          weights, x, radius, som_op, som_res

enc_vars == <<variant, _categories, op, arg, res, chain>>
som_vars == <<weights, x, radius, som_op, som_res>>
vars == <<variant, _categories, op, arg, res, chain,
          weights, x, radius, som_op, som_res>>

(* ------------------------------ bounds -------------------------------- *)
\* category values are 1..MaxVal
MaxVal == 2
\* longest sample / label sequence and most one-hot rows given to a call
MaxLen == 3
\* most entries of a weight array
MaxSize == 3
\* weights and sample features are 0..MaxWeight
MaxWeight == 1
\* most entries of a batch of samples
MaxData == 2
\* the squared neighbour radius (d, neighbor_radius) is 0..MaxRadiusSq
MaxRadiusSq == 1
\* the weight array has 3..MaxNdim axes
MaxNdim == 4

(* --------------------------- basic values ------------------------------ *)
\* np.nan, the floating-point missing marker (never equal to a label or value)
NaN == -99
None == {}
Some(v) == {v}
The(o) == CHOOSE v \in o : TRUE

Ok(v) == [err |-> "none", val |-> v]
Raise(e) == [err |-> e, val |-> <<>>]

Range(s) == {s[i] : i \in 1..Len(s)}
Last(s) == s[Len(s)]
Arr1(v) == [shape |-> <<Len(v)>>, v |-> v]
IsNull(v) == v = NaN

RECURSIVE SortSet(_)
SortSet(S) ==
  IF S = {} THEN <<>>
  ELSE LET m == CHOOSE a \in S : \A b \in S : a <= b
       IN <<m>> \o SortSet(S \ {m})

RECURSIVE Sum(_)
Sum(s) == IF s = <<>> THEN 0 ELSE Head(s) + Sum(Tail(s))

\* boolean-mask indexing a[m]
RECURSIVE Select(_, _)
Select(a, m) ==
  IF a = <<>> THEN <<>>
  ELSE (IF Head(m) THEN <<Head(a)>> ELSE <<>>) \o Select(Tail(a), Tail(m))

Not(m) == [i \in 1..Len(m) |-> ~m[i]]

\* Mutant of unique: the distinct values in order of first appearance
\* (what pd.unique returns), not sorted.
RECURSIVE FirstSeen(_)
FirstSeen(s) ==
  IF s = <<>> THEN <<>>
  ELSE LET init == FirstSeen(SubSeq(s, 1, Len(s) - 1))
       IN IF Last(s) \in Range(init) THEN init ELSE Append(init, Last(s))
unique_unsorted(samples, equal_nan) == FirstSeen(samples)

\* np.unique(samples): the sorted distinct values; NaN sorts last and, as
\* NaN # NaN, is kept once per occurrence unless the build collapses them
\* (equal_nan).
unique(samples, equal_nan) ==
  LET vals == SortSet({v \in Range(samples) : v # NaN})
      n_nan == Cardinality({i \in 1..Len(samples) : samples[i] = NaN})
      kept == IF equal_nan /\ n_nan > 0 THEN 1 ELSE n_nan
  IN vals \o [i \in 1..kept |-> NaN]

\* integer-array indexing a[labels] along the first axis: negative labels
\* count from the end, anything else out of range (or not an integer) raises
IndexOk(n, l) == l # NaN /\ l >= 0 - n /\ l < n
IndexPos(n, l) == (IF l < 0 THEN l + n ELSE l) + 1
Take(a, labels) ==
  IF \E i \in 1..Len(labels) : ~IndexOk(Len(a), labels[i])
  THEN Raise("IndexError")
  ELSE Ok([i \in 1..Len(labels) |-> a[IndexPos(Len(a), labels[i])]])

\* Mutant of eye: a matrix of ones (np.ones for np.eye).
eye_ones(n) == [i \in 1..n |-> [j \in 1..n |-> 1]]

eye(n) == [i \in 1..n |-> [j \in 1..n |-> IF i = j THEN 1 ELSE 0]]

Max(S) == CHOOSE a \in S : \A b \in S : b <= a
\* np.argmax of one row: the first position of the maximum
argmax(row) ==
  (CHOOSE i \in 1..Len(row) :
     /\ row[i] = Max(Range(row))
     /\ \A j \in 1..(i - 1) : row[j] < row[i]) - 1

(* --------------------------- OneHotEncoder ----------------------------- *)
\* Mutant of categories: the getter without its is-None check.
categories_unchecked(c) == IF c = None THEN Ok(<<>>) ELSE Ok(The(c))

categories(c) == IF c = None THEN Raise("NotFitted") ELSE Ok(The(c))

n_categories(c) ==
  LET cr == categories(c)
  IN IF cr.err # "none" THEN cr ELSE Ok(Len(cr.val))

OneHot_fit(samples, equal_nan) == Some(unique(samples, equal_nan))

\* Mutant of OneHot_transform_to_labels: the two argwhere columns confused,
\* labels[arr[:, 0]] = arr[:, 0].
OneHot_transform_to_labels_rows(c, samples) ==
  IF c = None THEN Raise("NotFitted")
  ELSE LET cats == The(c)
           arr == {rc \in (0..(Len(samples) - 1)) \X (0..(Len(cats) - 1)) :
                     /\ cats[rc[2] + 1] = samples[rc[1] + 1]
                     /\ samples[rc[1] + 1] # NaN}
           label(r) == IF \E rc \in arr : rc[1] = r THEN r ELSE 0
       IN Ok(Arr1([i \in 1..Len(samples) |-> label(i - 1)]))

OneHot_transform_to_labels(c, samples) ==
  LET cr == categories(c)
  IN IF cr.err # "none" THEN cr
     ELSE LET cats == cr.val
              \* np.argwhere(categories == samples.reshape(-1, 1)), 0-based
              arr == {rc \in (0..(Len(samples) - 1)) \X (0..(Len(cats) - 1)) :
                        /\ cats[rc[2] + 1] = samples[rc[1] + 1]
                        /\ samples[rc[1] + 1] # NaN}
              label(r) == IF \E rc \in arr : rc[1] = r
                          THEN Max({rc[2] : rc \in {p \in arr : p[1] = r}})
                          ELSE 0
          IN Ok(Arr1([i \in 1..Len(samples) |-> label(i - 1)]))

OneHot_transform_from_labels(c, labels) ==
  LET nr == n_categories(c)
  IN IF nr.err # "none" THEN nr
     ELSE LET t == Take(eye(nr.val), labels.v)
          IN IF t.err # "none" THEN t
             ELSE Ok([shape |-> labels.shape \o <<nr.val>>, rows |-> t.val])

OneHot_transform(c, samples) ==
  LET lr == OneHot_transform_to_labels(c, samples)
  IN IF lr.err # "none" THEN lr ELSE OneHot_transform_from_labels(c, lr.val)

OneHot_inverse_from_labels(c, labels) ==
  LET cr == categories(c)
  IN IF cr.err # "none" THEN cr ELSE Take(cr.val, labels.v)

OneHot_inverse_to_labels(encoded) ==
  IF Last(encoded.shape) = 0 THEN Raise("ValueError")
  ELSE Ok(Arr1([i \in 1..Len(encoded.rows) |-> argmax(encoded.rows[i])]))

OneHot_inverse(c, encoded) ==
  LET lr == OneHot_inverse_to_labels(encoded)
  IN IF lr.err # "none" THEN lr ELSE OneHot_inverse_from_labels(c, lr.val)

(* ----------------------------- _mask_assign ---------------------------- *)
\* np.full(shape, init) with the cells selected by mask overwritten, in
\* order, by values; shape is <<k>> (cells are scalars) or <<k, n>> (rows)
_mask_assign(shape, mask, values, init) ==
  LET cell == IF Len(shape) = 1 THEN init ELSE [j \in 1..shape[2] |-> init]
      rank(i) == Cardinality({j \in 1..i : mask[j]})
  IN [i \in 1..shape[1] |-> IF mask[i] THEN values[rank(i)] ELSE cell]

(* --------------------------- NanHotEncoder ----------------------------- *)
NanHot_fit(samples, equal_nan) ==
  OneHot_fit(Select(samples, [i \in 1..Len(samples) |-> ~IsNull(samples[i])]),
             equal_nan)

NanHot_transform_from_labels(c, labels) ==
  IF Len(labels.shape) > 1 THEN Raise("Shape")
  ELSE LET nans == [i \in 1..Len(labels.v) |-> labels.v[i] = NaN]
           er == OneHot_transform_from_labels(c, Arr1(Select(labels.v, Not(nans))))
       IN IF er.err # "none" THEN er
          ELSE LET shape == labels.shape \o <<n_categories(c).val>>
               IN Ok([shape |-> shape,
                      rows |-> _mask_assign(shape, Not(nans), er.val.rows, 0),
                      columns |-> categories(c).val])

\* the method the source spells inverse_to_lables: it overrides nothing
NanHot_inverse_to_lables(encoded) ==
  LET nans == [i \in 1..Len(encoded.rows) |-> Sum(encoded.rows[i]) = 0]
      ir == OneHot_inverse_to_labels(
              [shape |-> <<Len(Select(encoded.rows, Not(nans))), Last(encoded.shape)>>,
               rows |-> Select(encoded.rows, Not(nans))])
  IN IF ir.err # "none" THEN ir
     ELSE Ok(Arr1(_mask_assign(<<Len(encoded.rows)>>, Not(nans), ir.val.v, NaN)))

\* Mutant of NanHot_transform_to_labels: the mask without its isin test, so
\* a value that was never fitted goes through the base lookup.
NanHot_transform_to_labels_noisin(c, samples) ==
  IF c = None THEN Raise("NotFitted")
  ELSE LET mask == [i \in 1..Len(samples) |-> IsNull(samples[i])]
           lr == OneHot_transform_to_labels(c, Select(samples, Not(mask)))
       IN Ok(Arr1(_mask_assign(<<Len(samples)>>, Not(mask), lr.val.v, NaN)))

NanHot_transform_to_labels(c, samples) ==
  LET cr == categories(c)
  IN IF cr.err # "none" THEN cr
     ELSE LET mask == [i \in 1..Len(samples) |->
                         IsNull(samples[i]) \/ samples[i] \notin Range(cr.val)]
              lr == OneHot_transform_to_labels(c, Select(samples, Not(mask)))
          IN Ok(Arr1(_mask_assign(<<Len(samples)>>, Not(mask), lr.val.v, NaN)))

NanHot_inverse_from_labels(c, labels) ==
  LET series == labels.v
      isnull == [i \in 1..Len(series) |-> IsNull(series[i])]
      ir == OneHot_inverse_from_labels(c, Arr1(Select(series, Not(isnull))))
      rank(i) == Cardinality({j \in 1..i : ~isnull[j]})
  IN IF ir.err # "none" THEN ir
     ELSE Ok([i \in 1..Len(series) |->
                IF isnull[i] THEN series[i] ELSE ir.val[rank(i)]])

NanHot_transform(c, samples) ==
  LET lr == NanHot_transform_to_labels(c, samples)
  IN IF lr.err # "none" THEN lr ELSE NanHot_transform_from_labels(c, lr.val)

\* self.inverse_to_labels resolves to the inherited OneHotEncoder method
NanHot_inverse(c, encoded) ==
  LET lr == OneHot_inverse_to_labels(encoded)
  IN IF lr.err # "none" THEN lr ELSE NanHot_inverse_from_labels(c, lr.val)

(* --------------------------- CatHotEncoder ----------------------------- *)
\* the values of a categorical Series: code -1 is a missing entry
Values(s) ==
  [i \in 1..Len(s.codes) |->
     IF s.codes[i] = -1 THEN NaN ELSE s.cats[s.codes[i] + 1]]

CatHot_fit(samples, equal_nan) == OneHot_fit(samples.cats, equal_nan)

CatHot_transform_from_labels(c, labels) ==
  IF Len(labels.shape) > 1 THEN Raise("Shape")
  ELSE LET nans == [i \in 1..Len(labels.v) |-> labels.v[i] = -1]
           er == OneHot_transform_from_labels(c, Arr1(Select(labels.v, Not(nans))))
       IN IF er.err # "none" THEN er
          ELSE LET shape == labels.shape \o <<n_categories(c).val>>
               IN Ok([shape |-> shape,
                      rows |-> _mask_assign(shape, Not(nans), er.val.rows, 0),
                      columns |-> categories(c).val])

\* the method the source spells inverse_to_lables: it overrides nothing
CatHot_inverse_to_lables(encoded) ==
  LET nans == [i \in 1..Len(encoded.rows) |-> Sum(encoded.rows[i]) = 0]
      ir == OneHot_inverse_to_labels(
              [shape |-> <<Len(Select(encoded.rows, Not(nans))), Last(encoded.shape)>>,
               rows |-> Select(encoded.rows, Not(nans))])
  IN IF ir.err # "none" THEN ir
     ELSE Ok(Arr1(_mask_assign(<<Len(encoded.rows)>>, Not(nans), ir.val.v, -1)))

CatHot_transform_to_labels(c, samples) == Raise("Redundant")

CatHot_inverse_from_labels(c, labels) == Raise("Redundant")

\* samples.cat.set_categories(categories).cat.codes: each value's position
\* in the new categories, -1 for a missing value or one that is not there
set_categories_codes(samples, cats) ==
  [i \in 1..Len(samples.codes) |->
     LET v == Values(samples)[i]
     IN IF v # NaN /\ \E k \in 1..Len(cats) : cats[k] = v
        THEN (CHOOSE k \in 1..Len(cats) : cats[k] = v) - 1
        ELSE -1]

CatHot_transform(c, samples) ==
  LET cr == categories(c)
  IN IF cr.err # "none" THEN cr
     ELSE CatHot_transform_from_labels(c, Arr1(set_categories_codes(samples, cr.val)))

\* self.inverse_to_labels resolves to the inherited OneHotEncoder method;
\* pd.Categorical.from_codes rejects codes outside -1..n-1
CatHot_inverse(c, encoded) ==
  LET lr == OneHot_inverse_to_labels(encoded)
  IN IF lr.err # "none" THEN lr
     ELSE LET cr == categories(c)
          IN IF cr.err # "none" THEN cr
             ELSE IF \E i \in 1..Len(lr.val.v) :
                       lr.val.v[i] < -1 \/ lr.val.v[i] >= Len(cr.val)
                  THEN Raise("ValueError")
                  ELSE Ok([cats |-> cr.val, codes |-> lr.val.v])

(* ----------------------- method resolution by class -------------------- *)
Variants == {"OneHot", "NanHot", "CatHot"}

fit(v, samples, equal_nan) ==
  CASE v = "OneHot" -> OneHot_fit(samples, equal_nan)
    [] v = "NanHot" -> NanHot_fit(samples, equal_nan)
    [] v = "CatHot" -> CatHot_fit(samples, equal_nan)

transform(v, c, samples) ==
  CASE v = "OneHot" -> OneHot_transform(c, samples)
    [] v = "NanHot" -> NanHot_transform(c, samples)
    [] v = "CatHot" -> CatHot_transform(c, samples)

transform_to_labels(v, c, samples) ==
  CASE v = "OneHot" -> OneHot_transform_to_labels(c, samples)
    [] v = "NanHot" -> NanHot_transform_to_labels(c, samples)
    [] v = "CatHot" -> CatHot_transform_to_labels(c, samples)

transform_from_labels(v, c, labels) ==
  CASE v = "OneHot" -> OneHot_transform_from_labels(c, labels)
    [] v = "NanHot" -> NanHot_transform_from_labels(c, labels)
    [] v = "CatHot" -> CatHot_transform_from_labels(c, labels)

\* no subclass defines inverse_to_labels: all three run the base method
inverse_to_labels(v, encoded) == OneHot_inverse_to_labels(encoded)

inverse_to_lables(v, encoded) ==
  CASE v = "NanHot" -> NanHot_inverse_to_lables(encoded)
    [] v = "CatHot" -> CatHot_inverse_to_lables(encoded)

inverse_from_labels(v, c, labels) ==
  CASE v = "OneHot" -> OneHot_inverse_from_labels(c, labels)
    [] v = "NanHot" -> NanHot_inverse_from_labels(c, labels)
    [] v = "CatHot" -> CatHot_inverse_from_labels(c, labels)

inverse(v, c, encoded) ==
  CASE v = "OneHot" -> OneHot_inverse(c, encoded)
    [] v = "NanHot" -> NanHot_inverse(c, encoded)
    [] v = "CatHot" -> CatHot_inverse(c, encoded)

(* ------------------------------- inputs -------------------------------- *)
SeqsUpTo(S, n) == UNION {[1..k -> S] : k \in 0..n}

Vals == 1..MaxVal
SampleSeqs == SeqsUpTo(Vals \cup {NaN}, MaxLen)
Dicts == {d \in SeqsUpTo(Vals, MaxVal) :
            \A i, j \in 1..Len(d) : i # j => d[i] # d[j]}
CatSeries ==
  {s \in [cats : Dicts, codes : SeqsUpTo(-1..(MaxVal - 1), MaxLen)] :
     \A i \in 1..Len(s.codes) : s.codes[i] < Len(s.cats)}
SamplesOf(v) == IF v = "CatHot" THEN CatSeries ELSE SampleSeqs
LabelArrs ==
  UNION {{[shape |-> <<Len(lv)>>, v |-> lv], [shape |-> <<1, Len(lv)>>, v |-> lv]} :
           lv \in SeqsUpTo((-1..MaxVal) \cup {NaN}, MaxLen)}
Encodeds ==
  UNION {{[shape |-> <<k, w>>, rows |-> r] : r \in [1..k -> [1..w -> {0, 1}]]} :
           k \in 0..MaxLen, w \in 0..MaxVal}

(* ------------------------ encoder: state machine ----------------------- *)
\* The caller holds no result: the next call can be made.
Idle == op = "idle"

SomUnused ==
  /\ weights = <<>> /\ x = <<>> /\ radius = 0
  /\ som_op = "unused" /\ som_res = Raise("unused")

\* __init__: self._categories = None
Init ==
  /\ variant \in Variants
  /\ _categories = None
  /\ op = "idle" /\ arg = <<>> /\ res = Ok(<<>>) /\ chain = None
  /\ SomUnused

Called(name, a, r) ==
  /\ op' = name /\ arg' = a /\ res' = r /\ chain' = None
  /\ UNCHANGED <<variant, _categories, som_vars>>

Fit ==
  /\ Idle
  /\ \E samples \in SamplesOf(variant), equal_nan \in BOOLEAN :
       /\ _categories' = fit(variant, samples, equal_nan)
       /\ op' = "fit" /\ arg' = samples /\ res' = Ok(<<>>) /\ chain' = None
  /\ UNCHANGED <<variant, som_vars>>

ReadCategories ==
  /\ Idle
  /\ Called("categories", <<>>, categories(_categories))

ReadNCategories ==
  /\ Idle
  /\ Called("n_categories", <<>>, n_categories(_categories))

Transform ==
  /\ Idle
  /\ \E samples \in SamplesOf(variant) :
       Called("transform", samples, transform(variant, _categories, samples))

TransformToLabels ==
  /\ Idle
  /\ \E samples \in SamplesOf(variant) :
       Called("transform_to_labels", samples,
              transform_to_labels(variant, _categories, samples))

TransformFromLabels ==
  /\ Idle
  /\ \E labels \in LabelArrs :
       Called("transform_from_labels", labels,
              transform_from_labels(variant, _categories, labels))

InverseToLabels ==
  /\ Idle
  /\ \E encoded \in Encodeds :
       Called("inverse_to_labels", encoded, inverse_to_labels(variant, encoded))

InverseToLables ==
  /\ Idle
  /\ variant \in {"NanHot", "CatHot"}
  /\ \E encoded \in Encodeds :
       Called("inverse_to_lables", encoded, inverse_to_lables(variant, encoded))

InverseFromLabels ==
  /\ Idle
  /\ \E labels \in LabelArrs :
       Called("inverse_from_labels", labels,
              inverse_from_labels(variant, _categories, labels))

Inverse ==
  /\ Idle
  /\ \E encoded \in Encodeds :
       Called("inverse", encoded, inverse(variant, _categories, encoded))

\* inverse(transform(samples)): the caller hands the matrix transform
\* returned straight to inverse; chain remembers the samples it came from
InverseOfTransform ==
  /\ op = "transform" /\ res.err = "none"
  /\ op' = "inverse" /\ arg' = res.val
  /\ res' = inverse(variant, _categories, res.val)
  /\ chain' = Some(arg)
  /\ UNCHANGED <<variant, _categories, som_vars>>

\* the caller drops the result (or handles the exception) and goes on
Discard ==
  /\ ~Idle
  /\ op' = "idle" /\ arg' = <<>> /\ res' = Ok(<<>>) /\ chain' = None
  /\ UNCHANGED <<variant, _categories, som_vars>>

Next ==
  \/ Fit \/ ReadCategories \/ ReadNCategories
  \/ Transform \/ TransformToLabels \/ TransformFromLabels
  \/ InverseToLabels \/ InverseToLables \/ InverseFromLabels \/ Inverse
  \/ InverseOfTransform \/ Discard

Spec == Init /\ [][Next]_vars

(* =========================== SOM measures ============================== *)
(* An array is [shape, data], data indexed by the C-order flat index from  *)
(* 0.  A non-negative real is held as its square (norms, radii), so that   *)
(* every comparison stays in the integers; a mean of 0/1 errors is held as *)
(* the fraction [num, den].                                                *)
Sq(v) == v * v

RECURSIVE Prod(_)
Prod(s) == IF s = <<>> THEN 1 ELSE Head(s) * Prod(Tail(s))

RECURSIVE SumOver(_, _)
SumOver(f, S) ==
  IF S = {} THEN 0
  ELSE LET e == CHOOSE e \in S : TRUE IN f[e] + SumOver(f, S \ {e})

\* the C-order flat index of a coordinate
RECURSIVE ravel_from(_, _, _)
ravel_from(i, shape, k) ==
  IF i = <<>> THEN k
  ELSE ravel_from(Tail(i), Tail(shape), k * Head(shape) + Head(i))

ravel(i, shape) == ravel_from(i, shape, 0)

\* np.unravel_index of one flat index (below Prod(shape))
RECURSIVE unravel_index(_, _)
unravel_index(k, shape) ==
  IF shape = <<>> THEN <<>>
  ELSE Append(unravel_index(k \div Last(shape), SubSeq(shape, 1, Len(shape) - 1)),
              k % Last(shape))

\* np.indices(shape): every coordinate of the grid, 0-based
Indices(shape) == {unravel_index(k, shape) : k \in 0..(Prod(shape) - 1)}

At(a, i) == a.data[ravel(i, a.shape)]

\* np.linalg.norm(diff, axis=0) of two grid coordinates, squared
RECURSIVE ix_d2(_, _)
ix_d2(i, j) ==
  IF i = <<>> THEN 0
  ELSE (Head(j) - Head(i)) * (Head(j) - Head(i)) + ix_d2(Tail(i), Tail(j))

\* umatrix with the grid taken to be all but the last n_tail axes
umatrix_axes(w, d2, n_tail) ==
  LET map_shape == SubSeq(w.shape, 1, Len(w.shape) - n_tail)
      tail == Indices(SubSeq(w.shape, Len(w.shape) - n_tail + 1, Len(w.shape)))
      indices == Indices(map_shape)
      locs(i) == {j \in indices : ix_d2(i, j) > 0 /\ ix_d2(i, j) <= d2}
      \* np.linalg.norm(weights[locs] - weights[i]) with no axis: the norm
      \* of all the differences together, 0.0 when locs is empty
      dist2(i) ==
        SumOver([jt \in locs(i) \X tail |->
                   (At(w, jt[1] \o jt[2]) - At(w, i \o jt[2]))
                     * (At(w, jt[1] \o jt[2]) - At(w, i \o jt[2]))],
                locs(i) \X tail)
  \* np.mean(dist) of that one number is the number
  IN Ok([shape |-> map_shape, sq |-> [i \in indices |-> dist2(i)]])

\* Mutant of umatrix: map_shape = weights.shape[:-1].
umatrix_drop1(w, d2) == umatrix_axes(w, d2, 1)

\* map_shape = weights.shape[:-2]
umatrix(w, d2) == umatrix_axes(w, d2, 2)

\* the sequence f[0], ..., f[n - 1]
RECURSIVE Tabulate(_, _)
Tabulate(f, n) == IF n = 0 THEN <<>> ELSE Append(Tabulate(f, n - 1), f[n - 1])

\* numpy broadcasting of two axis lengths (0 when they do not broadcast)
broadcast(a, b) == IF a = b \/ b = 1 THEN a ELSE IF a = 1 THEN b ELSE 0

\* dist.reshape(-1, n_data) of topographic_error: the squared distances,
\* [rows, n_data, data] with data[row * n_data + column + 1]
distances(w, xs) ==
  LET n == Len(w.shape)
      map_shape == SubSeq(w.shape, 1, n - 2)
      A == w.shape[n - 1]
      B == w.shape[n]
      n_data == xs.shape[1]
      bA == broadcast(A, n_data)
      bB == broadcast(B, xs.shape[2])
      diff(m, a, b) ==
        At(w, m \o <<IF A = 1 THEN 0 ELSE a, IF B = 1 THEN 0 ELSE b>>)
          - At(xs, <<IF n_data = 1 THEN 0 ELSE a, IF xs.shape[2] = 1 THEN 0 ELSE b>>)
      dist(m, a) == Sum([b \in 1..bB |-> Sq(diff(m, a, b - 1))])
      flat == [k \in 0..(Prod(map_shape) * bA - 1) |->
                 dist(unravel_index(k \div bA, map_shape), k % bA)]
      rows == (Prod(map_shape) * bA) \div n_data
  IN IF bA = 0 \/ bB = 0 THEN Raise("ValueError")
     ELSE Ok([rows |-> rows, n_data |-> n_data,
              data |-> Tabulate(flat, rows * n_data)])

\* np.argsort(dist, axis=0)[:2, :], one column: the rows of the lowest and
\* the second lowest value; which of several equal values comes first is
\* left to the sort
Top2Col(d, c) ==
  LET R == 0..(d.rows - 1)
      v(r) == d.data[r * d.n_data + c + 1]
      least(r, S) == \A q \in S : v(r) <= v(q)
  IN IF d.rows >= 2
     THEN {p \in R \X R : p[1] # p[2] /\ least(p[1], R) /\ least(p[2], R \ {p[1]})}
     ELSE {}

\* Mutant of error_of: a pair at exactly the radius is also an error.
error_of_geq(w, p, r2) ==
  LET map_shape == SubSeq(w.shape, 1, Len(w.shape) - 2)
  IN IF ix_d2(unravel_index(p[1], map_shape), unravel_index(p[2], map_shape)) >= r2
     THEN 1 ELSE 0

\* errors[i] of the sample whose two best rows are p: b_ix[:, i] against
\* b_ix[:, i + n_data], 1 when further apart than neighbor_radius
error_of(w, p, r2) ==
  LET map_shape == SubSeq(w.shape, 1, Len(w.shape) - 2)
  IN IF ix_d2(unravel_index(p[1], map_shape), unravel_index(p[2], map_shape)) > r2
     THEN 1 ELSE 0

\* what one sample can contribute: -1 where np.unravel_index meets a row
\* that is no cell of the grid (its ValueError), else its errors[i]
Column(w, d, c, r2) ==
  {IF \E k \in 1..Len(p) : p[k] >= Prod(SubSeq(w.shape, 1, Len(w.shape) - 2))
   THEN -1 ELSE error_of(w, p, r2) : p \in Top2Col(d, c)}

\* the errors arrays the sort can lead to, from column c on
RECURSIVE Errors(_, _, _, _)
Errors(w, d, c, r2) ==
  IF c = d.n_data THEN {<<>>}
  ELSE {<<e>> \o rest : e \in Column(w, d, c, r2), rest \in Errors(w, d, c + 1, r2)}

\* topographic_error: every outcome the call can have
topographic_error(w, xs, r2) ==
  LET d == distances(w, xs)
      n_data == xs.shape[1]
  IN IF d.err # "none" THEN {d}
     ELSE IF d.val.rows < 2 THEN {Raise("IndexError")}
     ELSE {IF \E i \in 1..n_data : errors[i] = -1 THEN Raise("ValueError")
           ELSE Ok([num |-> Sum(errors), den |-> n_data]) :
             errors \in Errors(w, d.val, 0, r2)}

(* --------------------------- SOM: inputs ------------------------------- *)
Shapes(n) == {sh \in [1..n -> 1..MaxSize] : Prod(sh) <= MaxSize}
Arrays(sh) == {[shape |-> sh, data |-> dt] : dt \in [0..(Prod(sh) - 1) -> 0..MaxWeight]}
WeightArrays == UNION {Arrays(sh) : sh \in UNION {Shapes(n) : n \in 3..MaxNdim}}
\* a batch of samples with as many features as the weights, of at most
\* MaxData entries
Batches(w) ==
  UNION {Arrays(<<n, Last(w.shape)>>) :
           n \in {k \in 1..MaxData : k * Last(w.shape) <= MaxData}}

(* ------------------------- SOM: state machine -------------------------- *)
EncUnused ==
  /\ variant = "OneHot" /\ _categories = None
  /\ op = "unused" /\ arg = <<>> /\ res = Raise("unused") /\ chain = None

\* a SOM with some weights; no measure has been taken
InitSom ==
  /\ weights \in WeightArrays
  /\ x = <<>> /\ radius = 0 /\ som_op = "idle" /\ som_res = Ok(<<>>)
  /\ EncUnused

Umatrix ==
  /\ som_op = "idle"
  /\ \E d2 \in 0..MaxRadiusSq :
       /\ radius' = d2
       /\ som_res' = umatrix(weights, d2)
  /\ som_op' = "umatrix"
  /\ UNCHANGED <<weights, x, enc_vars>>

TopographicError ==
  /\ som_op = "idle"
  /\ \E xs \in Batches(weights), r2 \in 0..MaxRadiusSq :
       /\ x' = xs
       /\ radius' = r2
       /\ som_res' \in topographic_error(weights, xs, r2)
  /\ som_op' = "topographic_error"
  /\ UNCHANGED <<weights, enc_vars>>

NextSom == Umatrix \/ TopographicError

SpecSom == InitSom /\ [][NextSom]_vars

(* ========================= encoder properties ========================== *)
Fitted == _categories # None
Cats == The(_categories)
Zeros(n) == [j \in 1..n |-> 0]
AllZero(row) == \A j \in 1..Len(row) : row[j] = 0
\* the values of a sample collection, whichever way the variant takes it
SampleVals(s) == IF variant = "CatHot" THEN Values(s) ELSE s
\* inverse(transform(samples)) has just returned or raised
RoundTripped == op = "inverse" /\ chain # None
\* ... for samples that are all fitted categories, none missing
DrawnFromCats ==
  /\ RoundTripped
  /\ \A i \in 1..Len(SampleVals(The(chain))) :
       /\ SampleVals(The(chain))[i] # NaN
       /\ SampleVals(The(chain))[i] \in Range(Cats)
RoundTripHolds ==
  /\ res.err = "none"
  /\ SampleVals(res.val) = SampleVals(The(chain))

\* C1 as stated: for every variant, inverse(transform(samples)) returns the
\* samples, element for element, whenever the samples are all members of the
\* fitted category set and none is missing.
C1_RoundTripAnyFit == DrawnFromCats => RoundTripHolds

\* C1 as amended: the same, for a fitted category set that is not empty
\* (with no category, transform yields a matrix of width 0 and inverse's
\* argmax over that empty axis raises ValueError).
C1_RoundTrip == (DrawnFromCats /\ Len(Cats) > 0) => RoundTripHolds

\* C1 witness: a CatHotEncoder whose input dictionary is ordered unlike the
\* fitted category set round-trips two different values.
C1_Witness ==
  /\ DrawnFromCats /\ variant = "CatHot" /\ RoundTripHolds
  /\ The(chain).cats = <<2, 1>> /\ The(chain).codes = <<0, 1>>

\* inverse was called on k >= 1 all-zero rows as wide as the category set
InverseOfZeroRows ==
  /\ op = "inverse" /\ Fitted /\ chain = None
  /\ Len(arg.rows) > 0 /\ Len(Cats) > 0
  /\ Last(arg.shape) = Len(Cats)
  /\ \A i \in 1..Len(arg.rows) : AllZero(arg.rows[i])

\* C2: inverse of k all-zero rows is k null entries on a NanHotEncoder and
\* k times the first category on a OneHotEncoder.
C2_ZeroRowsInverse ==
  InverseOfZeroRows =>
    /\ res.err = "none"
    /\ variant = "NanHot" => res.val = [i \in 1..Len(arg.rows) |-> NaN]
    /\ variant = "OneHot" => res.val = [i \in 1..Len(arg.rows) |-> Cats[1]]

\* C3: on a CatHotEncoder, transform_from_labels turns the code -1 into an
\* all-zero row, and inverse_to_labels (called directly, or inside inverse)
\* turns every all-zero row into -1 and every one-hot row into its code.
C3_SentinelMinusOne ==
  /\ (variant = "CatHot" /\ Fitted /\ op = "transform_from_labels"
        /\ res.err = "none") =>
       \A i \in 1..Len(arg.v) : arg.v[i] = -1 => AllZero(res.val.rows[i])
  /\ (variant = "CatHot" /\ Fitted /\ op = "inverse_to_labels"
        /\ Last(arg.shape) = Len(Cats) /\ Len(Cats) > 0) =>
       /\ res.err = "none"
       /\ \A i \in 1..Len(arg.rows) :
            /\ AllZero(arg.rows[i]) => res.val.v[i] = -1
            /\ Sum(arg.rows[i]) = 1 => arg.rows[i][res.val.v[i] + 1] = 1
  /\ (variant = "CatHot" /\ Fitted /\ op = "inverse" /\ res.err = "none") =>
       \A i \in 1..Len(arg.rows) : AllZero(arg.rows[i]) => res.val.codes[i] = -1

\* C4: a fitted NanHotEncoder's transform returns one row per sample, in
\* order: a single 1 at the sample's position in the category set, and no 1
\* at all when the sample is missing or not in the category set.
C4_NullAwareTransform ==
  (variant = "NanHot" /\ op = "transform" /\ Fitted) =>
    /\ res.err = "none"
    /\ res.val.shape = <<Len(arg), Len(Cats)>>
    /\ Len(res.val.rows) = Len(arg)
    /\ \A i \in 1..Len(arg) :
         res.val.rows[i] =
           [j \in 1..Len(Cats) |-> IF Cats[j] = arg[i] /\ arg[i] # NaN THEN 1 ELSE 0]

\* C4 witness: one call given a missing value, a fitted category and a value
\* that was never fitted.
C4_Witness ==
  /\ variant = "NanHot" /\ op = "transform" /\ Fitted /\ res.err = "none"
  /\ Cats = <<1>> /\ arg = <<NaN, 1, 2>>
  /\ res.val.rows = <<<<0>>, <<1>>, <<0>>>>

\* C5: every row of every transform output holds only 0s and 1s and sums
\* to 0 or 1.
C5_OneHotRows ==
  (op = "transform" /\ res.err = "none") =>
    \A i \in 1..Len(res.val.rows) :
      /\ \A j \in 1..Len(res.val.rows[i]) : res.val.rows[i][j] \in {0, 1}
      /\ Sum(res.val.rows[i]) \in {0, 1}

\* C5 witness: an output with a one-hot row and an all-zero row, two wide.
C5_Witness ==
  /\ op = "transform" /\ res.err = "none"
  /\ Len(res.val.rows) >= 2 /\ Last(res.val.shape) >= 2
  /\ Sum(res.val.rows[1]) = 1 /\ Sum(res.val.rows[2]) = 0

\* the operations C7 lists as reading the category set
ReadingOps ==
  {"categories", "n_categories", "transform", "transform_from_labels",
   "inverse_from_labels", "inverse"}

\* C7 as stated: before the first fit every listed read fails with the
\* not-fitted error and leaves the encoder unfitted; once fitted none of them
\* raises it.
C7_NotFittedAnyCall ==
  [][op' \in ReadingOps =>
       IF _categories = None
       THEN res'.err = "NotFitted" /\ _categories' = None
       ELSE res'.err # "NotFitted"]_vars

\* what a call made before the first fit raises: three calls fail before
\* they come to read the category set
ErrorBeforeFit(v, name, a) ==
  CASE name = "inverse_from_labels" /\ v = "CatHot" -> "Redundant"
    [] name = "transform_from_labels" /\ v # "OneHot" /\ Len(a.shape) > 1 -> "Shape"
    [] name = "inverse" /\ Last(a.shape) = 0 -> "ValueError"
    [] OTHER -> "NotFitted"

\* C7 as amended: as stated, except that before the first fit
\* CatHotEncoder.inverse_from_labels fails with its unsupported-operation
\* error, NanHotEncoder/CatHotEncoder.transform_from_labels given labels of
\* more than one dimension fails with the shape error, and inverse given
\* rows of width 0 fails with argmax's ValueError; each leaves the encoder
\* unfitted.
C7_NotFitted ==
  [][op' \in ReadingOps =>
       IF _categories = None
       THEN /\ res'.err = ErrorBeforeFit(variant, op', arg')
            /\ _categories' = None
       ELSE res'.err # "NotFitted"]_vars

\* C7 witness: transform on an encoder never fitted has raised not-fitted.
C7_Witness ==
  /\ op = "transform" /\ _categories = None /\ res.err = "NotFitted"
  /\ variant = "CatHot"

NonMissing(s) == {s[i] : i \in {k \in 1..Len(s) : s[k] # NaN}}
\* the stored sequence is strictly ascending, hence duplicate-free
Ascending(s) == \A i, j \in 1..Len(s) : i < j => s[i] < s[j]
\* the stored sequence is ascending distinct values, then only NaN entries
AscendingThenNaN(s) ==
  \A i, j \in 1..Len(s) :
    i < j => (s[j] = NaN \/ (s[i] # NaN /\ s[i] < s[j]))

\* C10 as stated: after any call the category set is unfitted or ascending
\* and duplicate-free; a fit makes it the set of non-missing values it was
\* given; no other call changes it.
C10_LifecycleNonMissing ==
  [][/\ Fitted' => Ascending(Cats')
     /\ op' = "fit" => /\ Fitted'
                       /\ Range(Cats') = NonMissing(SampleVals(arg'))
     /\ op' # "fit" => _categories' = _categories]_vars

\* C10 as amended: the stored sequence is ascending, duplicate-free values
\* followed by nothing but NaN entries.  A fit makes the values the distinct
\* non-missing values given (OneHotEncoder, NanHotEncoder) or the whole
\* category dictionary of the series given, used or not (CatHotEncoder);
\* NaN entries follow exactly when a OneHotEncoder was fitted on samples
\* holding a missing value.  No other call, returning or raising, changes it.
C10_Lifecycle ==
  [][/\ Fitted' => AscendingThenNaN(Cats')
     /\ op' = "fit" =>
          /\ Fitted'
          /\ NonMissing(Cats') =
               (IF variant = "CatHot" THEN Range(arg'.cats) ELSE NonMissing(arg'))
          /\ NaN \in Range(Cats') <=>
               (variant = "OneHot" /\ NaN \in Range(arg'))
     /\ op' # "fit" => _categories' = _categories]_vars

\* C10 witness: a call that raised on an encoder fitted on unsorted,
\* repeated values left the sorted category set in place.
C10_Witness ==
  /\ Fitted /\ Cats = <<1, 2>> /\ variant = "NanHot"
  /\ op = "transform_from_labels" /\ res.err = "IndexError"

(* --------------------------- SOM: properties --------------------------- *)
\* the grid of a weight array whose last n_tail axes are not grid axes
GridShape(n_tail) == SubSeq(weights.shape, 1, Len(weights.shape) - n_tail)
Cells(n_tail) == Indices(GridShape(n_tail))
\* the weights hold one feature vector per cell: map_shape + (1, n_features)
OneVectorPerCell == weights.shape[Len(weights.shape) - 1] = 1
\* the coordinates after the grid's that reach every feature of one cell
Features(n_tail) ==
  Indices(SubSeq(weights.shape, Len(weights.shape) - n_tail + 1, Len(weights.shape)))
Neighbours(i, n_tail) ==
  {j \in Cells(n_tail) : ix_d2(i, j) > 0 /\ ix_d2(i, j) <= radius}

SampleD2(m, a, n_tail) ==
  Sum([b \in 1..Last(weights.shape) |->
         Sq(At(weights, m \o (IF n_tail = 2 THEN <<0, b - 1>> ELSE <<b - 1>>))
              - At(x, <<a, b - 1>>))])

\* the squared feature distances of the sample a to the cells, in C order
SampleD2s(a, n_tail) ==
  Tabulate([k \in 0..(Prod(GridShape(n_tail)) - 1) |->
              SampleD2(unravel_index(k, GridShape(n_tail)), a, n_tail)],
           Prod(GridShape(n_tail)))

\* the pairs of a best and a second best matching unit of the sample a: the
\* first is as near to the sample as any cell, the second as near as any
\* other cell
BmuPairs(a, n_tail) ==
  LET D == SampleD2s(a, n_tail)
      K == 1..Len(D)
      best == {k \in K : \A m \in K : D[k] <= D[m]}
      second(k1) == {k \in K \ {k1} : \A m \in K \ {k1} : D[k] <= D[m]}
  IN {<<unravel_index(p[1] - 1, GridShape(n_tail)),
        unravel_index(p[2] - 1, GridShape(n_tail))>> :
        p \in {q \in best \X K : q[2] \in second(q[1])}}

\* whether the two units of a pair are further apart than the radius, for
\* each pair the sample a can have
Apart(a, n_tail) == {ix_d2(p[1], p[2]) > radius : p \in BmuPairs(a, n_tail)}

\* the result is the fraction, among the samples, of those whose two best
\* matching units are further apart than the radius, for some ranking of
\* the cells of equal distance: the count lies between the samples that
\* are errors under every ranking and those that are under some
IsErrorFraction(n_tail) ==
  LET n == x.shape[1]
      apart == Tabulate([a \in 0..(n - 1) |-> Apart(a, n_tail)], n)
      must == {a \in 1..n : apart[a] = {TRUE}}
      may == {a \in 1..n : TRUE \in apart[a]}
  IN /\ Len(x.shape) = 2 /\ x.shape[2] = Last(weights.shape)
     /\ som_res.err = "none"
     /\ som_res.val.den = n
     /\ som_res.val.num \in 0..n
     /\ Cardinality(must) <= som_res.val.num
     /\ som_res.val.num <= Cardinality(may)

\* C8 as stated: for any weights of shape map_shape + (n_features,) and any
\* batch of samples, topographic_error returns the fraction of the samples
\* whose best and second best matching units are further apart than
\* neighbor_radius.
C8_AnyGrid ==
  som_op = "topographic_error" => IsErrorFraction(1)

\* C8: for weights of shape map_shape + (1, n_features) over a grid of two
\* cells or more and any batch of samples, topographic_error returns the
\* fraction of the samples whose best and second best matching units are
\* further apart than neighbor_radius; it lies in [0, 1], is 0 when no
\* sample's pair is and 1 when every sample's pair is.
C8_TopographicError ==
  (som_op = "topographic_error" /\ OneVectorPerCell /\ Prod(GridShape(2)) >= 2) =>
    IsErrorFraction(2)

\* three cells in a row holding 0, 1, 0 and the samples 0 and 1: the first
\* sample's best units are the two ends, the second's are adjacent
C8_Witness ==
  /\ som_op = "topographic_error"
  /\ weights.shape = <<3, 1, 1>>
  /\ weights.data[0] = 0 /\ weights.data[1] = 1 /\ weights.data[2] = 0
  /\ x.shape = <<2, 1>> /\ x.data[0] = 0 /\ x.data[1] = 1
  /\ radius = 1
  /\ som_res = Ok([num |-> 1, den |-> 2])

\* the integer square root of a perfect square, -1 of any other number
isqrt(n) ==
  IF \E r \in 0..n : r * r = n THEN CHOOSE r \in 0..n : r * r = n ELSE -1

\* squared feature distance between the weight vectors of two cells
CellD2(i, j) ==
  LET diff(t) == At(weights, j \o t) - At(weights, i \o t)
      ts == Features(2)
  IN SumOver([t \in ts |-> diff(t) * diff(t)], ts)

\* C9 as stated: umatrix at i is the mean, over the neighbours j of i, of
\* the feature distance between the weight vectors at i and j, and
\* not-a-number where i has no neighbour.  (The output holds the square of
\* the value; where every distance is a whole number, the mean m of k
\* distances that sum to s satisfies k*k * m*m = s*s.)
C9_MeanOfDistances ==
  (som_op = "umatrix" /\ OneVectorPerCell) =>
    /\ som_res.err = "none"
    /\ \A i \in Cells(2) :
         LET N == Neighbours(i, 2)
             k == Cardinality(N)
             s == SumOver([j \in N |-> isqrt(CellD2(i, j))], N)
         IN /\ N = {} => som_res.val.sq[i] = NaN
            /\ (N # {} /\ \A j \in N : isqrt(CellD2(i, j)) >= 0) =>
                 k * k * som_res.val.sq[i] = s * s

====
